---- MODULE Spec2Model ----
(***************************************************************************)
(* Model of the MCP server registry scripts:                               *)
(*   scripts/validate.js      stripPlatformFields, validateFiles,          *)
(*                            checkConflicts, main                         *)
(*   scripts/build-bundle.js  enrichServer, main                           *)
(*                                                                         *)
(* JavaScript values are written as their JSON literal text, so that a     *)
(* boolean, a string and a missing property stay distinguishable:          *)
(*   "true" "false" "null" "\"a\"" "\"\"" and Undefined for a property     *)
(* that is not there.                                                      *)
(***************************************************************************)
EXTENDS Integers, Sequences, FiniteSets, TLC

VARIABLES
    \* ---- validate.js: the process
    argv,          \* [doAll, doConflicts, fileArgs]: process.argv.slice(2), parsed
    schemaOk,      \* whether the schema document loads and compiles
    dir,           \* what glob returns for servers/*.json: a sequence of [file, data]
    pc,            \* position of validate.js
    files,         \* main: the files to validate
    vi,            \* validateFiles: index of the next file of the loop
    hasErrors,     \* validateFiles: let hasErrors
    exitCode,      \* main: let exitCode
    exited,        \* the status the process exited with, or NoExit
    \* ---- validate.js: checkConflicts
    ci,            \* index of the next file of the loop
    ids,           \* Map id -> file
    aliases,       \* Map alias -> file
    hasConflicts,  \* let hasConflicts
    log,           \* the CONFLICT lines written to console.error, in order
    \* ---- validate.js: stripPlatformFields
    authored,      \* the record as loaded, before stripping: a sequence of [key, value]
    data,          \* the record, which stripPlatformFields changes in place
    warnings,      \* the warnings stripPlatformFields returns
    \* ---- build-bundle.js (its position is pc, its exit status exited, its glob dir)
    categoriesFile, \* categories.json on disk: [ok, list]
    categories,    \* main: categories
    servers,       \* main: servers, each with the file it was loaded from
    si,            \* main: index of the next file of the loop
    bundleFile,    \* bundle/bundle.json as written by this run: << >> or <<bundle>>
    \* ---- build-bundle.js: enrichServer called on its own
    serverArg,     \* the argument server, which enrichServer does not change
    enriched       \* what enrichServer returns, << >> before it has

ccVars == <<ci, ids, aliases, hasConflicts, log>>
cliVars == <<argv, schemaOk, dir, pc, files, vi, hasErrors, exitCode, exited>>
stripVars == <<authored, data, warnings>>
bundleVars == <<categoriesFile, categories, servers, si, bundleFile>>
enrichVars == <<serverArg, enriched>>
otherVars == <<stripVars, bundleVars, enrichVars>>
vars == <<argv, schemaOk, dir, pc, files, vi, hasErrors, exitCode, exited,
          ci, ids, aliases, hasConflicts, log, authored, data, warnings,
          categoriesFile, categories, servers, si, bundleFile, serverArg, enriched>>

(***************************************************************************)
(* Bounds                                                                  *)
(***************************************************************************)
MaxFiles == 3
MaxCliFiles == 2
MaxArgs == 2
MaxFields == 3
MaxBundleFiles == 3

(***************************************************************************)
(* JavaScript values                                                       *)
(***************************************************************************)
Undefined == "undefined"

\* ToBoolean: what `if (v)` and `v && w` test
Truthy(v) == v \notin {Undefined, "null", "false", "0", "\"\""}

NoExit == -1

\* Map: has / get / set on a function whose domain is the key set
EmptyMap == [k \in {} |-> 0]
MapHas(m, k) == k \in DOMAIN m
MapSet(m, k, v) == [x \in (DOMAIN m) \cup {k} |-> IF x = k THEN v ELSE m[x]]

\* the variables of a part of the program that a specification leaves alone
StripIdle == authored = << >> /\ data = << >> /\ warnings = << >>

EnrichIdle == serverArg = << >> /\ enriched = << >>

BundleIdle ==
    /\ categoriesFile = [ok |-> FALSE, list |-> << >>] /\ categories = << >>
    /\ servers = << >> /\ si = 1 /\ bundleFile = << >>

(***************************************************************************)
(* Files.  A file's data is what is on disk:                               *)
(*   kind "unparseable"  loadJson throws (unreadable or malformed JSON)    *)
(*   kind "null"         the file holds the JSON value null                *)
(*   kind "object"       the file holds a JSON object with id and alias    *)
(* valid says whether the object, once stripped, passes the schema.        *)
(***************************************************************************)
Unparseable == [kind |-> "unparseable", id |-> Undefined, alias |-> Undefined, valid |-> FALSE]
JsonNull == [kind |-> "null", id |-> Undefined, alias |-> Undefined, valid |-> FALSE]
Obj(i, a, v) == [kind |-> "object", id |-> i, alias |-> a, valid |-> v]

\* loadJson: readFileSync + JSON.parse; TRUE when it throws
LoadJsonThrows(d) == d.kind = "unparseable"

\* reading a property of null throws a TypeError
PropertyReadThrows(d) == d.kind = "null"

\* getAllServerFiles over a directory holding the files f1..fn with contents c[1]..c[n]
DirOf(c) == [j \in DOMAIN c |-> [file |-> j, data |-> c[j]]]

(***************************************************************************)
(* checkConflicts                                                          *)
(***************************************************************************)
ConflictState0 == [ids |-> EmptyMap, aliases |-> EmptyMap, hasConflicts |-> FALSE,
                   log |-> << >>, threw |-> FALSE]

Conflict(msg, token, relative, other) ==
    [msg |-> msg, token |-> token, file |-> relative, other |-> other]

\* lines 140-147 without the else branch of line 146: the id is never recorded
CheckDuplicateIdNoInsert(st, id, relative) ==
    IF MapHas(st.ids, id)
    THEN [st EXCEPT !.log = Append(@, Conflict("duplicate-id", id, relative, st.ids[id])),
                    !.hasConflicts = TRUE]
    ELSE st

\* lines 140-147: duplicate id, else record the id
CheckDuplicateId(st, id, relative) ==
    IF MapHas(st.ids, id)
    THEN [st EXCEPT !.log = Append(@, Conflict("duplicate-id", id, relative, st.ids[id])),
                    !.hasConflicts = TRUE]
    ELSE [st EXCEPT !.ids = MapSet(@, id, relative)]

\* lines 150-155 left out: an id is never looked up among the aliases
CheckIdAgainstAliasesSkipped(st, id, relative) == st

\* lines 150-155: the id collides with an alias already recorded
CheckIdAgainstAliases(st, id, relative) ==
    IF MapHas(st.aliases, id)
    THEN [st EXCEPT !.log = Append(@, Conflict("id-collides-with-alias", id, relative, st.aliases[id])),
                    !.hasConflicts = TRUE]
    ELSE st

\* lines 160-167 without line 164: the line is printed, hasConflicts is not set
CheckDuplicateAliasSilent(st, alias, relative) ==
    IF MapHas(st.aliases, alias)
    THEN [st EXCEPT !.log = Append(@, Conflict("duplicate-alias", alias, relative, st.aliases[alias]))]
    ELSE [st EXCEPT !.aliases = MapSet(@, alias, relative)]

\* lines 160-167: duplicate alias, else record the alias
CheckDuplicateAlias(st, alias, relative) ==
    IF MapHas(st.aliases, alias)
    THEN [st EXCEPT !.log = Append(@, Conflict("duplicate-alias", alias, relative, st.aliases[alias])),
                    !.hasConflicts = TRUE]
    ELSE [st EXCEPT !.aliases = MapSet(@, alias, relative)]

\* lines 170-175: the alias collides with an id already recorded
CheckAliasAgainstIds(st, alias, relative) ==
    IF MapHas(st.ids, alias)
    THEN [st EXCEPT !.log = Append(@, Conflict("alias-collides-with-id", alias, relative, st.ids[alias])),
                    !.hasConflicts = TRUE]
    ELSE st

\* lines 128-177: the body of the loop for one file
ConflictLoopBody(st, f) ==
    IF LoadJsonThrows(f.data) THEN st                       \* catch { continue }
    ELSE IF PropertyReadThrows(f.data) THEN [st EXCEPT !.threw = TRUE]
    ELSE LET s1 == IF Truthy(f.data.id)
                   THEN CheckIdAgainstAliases(CheckDuplicateId(st, f.data.id, f.file),
                                              f.data.id, f.file)
                   ELSE st
         IN  IF Truthy(f.data.alias)
             THEN CheckAliasAgainstIds(CheckDuplicateAlias(s1, f.data.alias, f.file),
                                       f.data.alias, f.file)
             ELSE s1

\* checkConflicts as a function of the enumeration: the loop run to its end
RECURSIVE ConflictLoop(_, _)
ConflictLoop(st, fs) ==
    IF fs = << >> \/ st.threw THEN st
    ELSE ConflictLoop(ConflictLoopBody(st, Head(fs)), Tail(fs))

RunCheckConflicts(fs) == ConflictLoop(ConflictState0, fs)

\* lines 117-126: the call; no files -> return false
CheckConflictsStart ==
    /\ pc = "checkConflicts"
    /\ ci' = 1
    /\ ids' = EmptyMap
    /\ aliases' = EmptyMap
    /\ hasConflicts' = FALSE
    /\ log' = << >>
    /\ pc' = IF Len(dir) = 0 THEN "ccReturned" ELSE "ccLoop"
    /\ UNCHANGED <<argv, schemaOk, dir, files, vi, hasErrors, exitCode, exited>>
    /\ UNCHANGED otherVars

\* lines 128-177: one iteration
CheckConflictsFile ==
    /\ pc = "ccLoop"
    /\ ci <= Len(dir)
    /\ LET st == ConflictLoopBody([ids |-> ids, aliases |-> aliases,
                                   hasConflicts |-> hasConflicts, log |-> log,
                                   threw |-> FALSE], dir[ci])
       IN  /\ ids' = st.ids
           /\ aliases' = st.aliases
           /\ hasConflicts' = st.hasConflicts
           /\ log' = st.log
           /\ pc' = IF st.threw THEN "threw" ELSE "ccLoop"
           /\ ci' = IF st.threw THEN ci ELSE ci + 1
    /\ UNCHANGED <<argv, schemaOk, dir, files, vi, hasErrors, exitCode, exited>>
    /\ UNCHANGED otherVars

\* lines 179-183: return hasConflicts
CheckConflictsReturn ==
    /\ pc = "ccLoop"
    /\ ci > Len(dir)
    /\ pc' = "ccReturned"
    /\ UNCHANGED <<argv, schemaOk, dir, files, vi, hasErrors, exitCode, exited>>
    /\ UNCHANGED otherVars
    /\ UNCHANGED ccVars

(***************************************************************************)
(* Specification of checkConflicts alone: the directory holds any files    *)
(* with ids and aliases drawn from Tokens, and checkConflicts is called.   *)
(***************************************************************************)
Tokens == {Undefined, "\"\"", "\"a\"", "\"b\""}

ConflictData == {Unparseable, JsonNull} \cup {Obj(i, a, TRUE) : i \in Tokens, a \in Tokens}

NoArgs == [doAll |-> FALSE, doConflicts |-> FALSE, fileArgs |-> << >>]

InitConflicts ==
    /\ \E n \in 0..MaxFiles : \E c \in [1..n -> ConflictData] : dir = DirOf(c)
    /\ argv = [NoArgs EXCEPT !.doConflicts = TRUE]
    /\ schemaOk = TRUE
    /\ pc = "checkConflicts"
    /\ files = << >>
    /\ vi = 1
    /\ hasErrors = FALSE
    /\ exitCode = 0
    /\ exited = NoExit
    /\ ci = 1
    /\ ids = EmptyMap
    /\ aliases = EmptyMap
    /\ hasConflicts = FALSE
    /\ log = << >>
    /\ StripIdle
    /\ BundleIdle
    /\ EnrichIdle

NextConflicts == CheckConflictsStart \/ CheckConflictsFile \/ CheckConflictsReturn

SpecConflicts == InitConflicts /\ [][NextConflicts]_vars

(***************************************************************************)
(* Vocabulary of the claims about checkConflicts                           *)
(***************************************************************************)
\* checkConflicts has returned (its result is hasConflicts)
ConflictsReturned == pc = "ccReturned"

\* positions of the directory whose file parses to a record (a JSON object)
Recs == {j \in DOMAIN dir : dir[j].data.kind = "object"}

\* every file that parses holds a record
RecordsOnly == \A j \in DOMAIN dir : dir[j].data.kind # "null"

IdOf(j) == dir[j].data.id
AliasOf(j) == dir[j].data.alias

\* the conflict kinds of the data model
KindOf(msg) ==
    CASE msg = "duplicate-id" -> "duplicate-id"
      [] msg = "duplicate-alias" -> "duplicate-alias"
      [] OTHER -> "id-alias-collision"

\* a conflict as (kind, colliding token, unordered pair of files)
ConflictKey(c) == [kind |-> KindOf(c.msg), token |-> c.token, pair |-> {c.file, c.other}]
ConflictSet(l) == {ConflictKey(l[k]) : k \in DOMAIN l}

\* every order in which the enumeration may return the files of dir
Orders(d) == {[j \in DOMAIN d |-> d[p[j]]] : p \in Permutations(DOMAIN d)}

Pairs(S) == {P \in SUBSET S : Cardinality(P) = 2}

Min(S) == CHOOSE x \in S : \A y \in S : x <= y
Max(S) == CHOOSE x \in S : \A y \in S : x >= y

DuplicateIdLines == SelectSeq(log, LAMBDA c : c.msg = "duplicate-id")

(***************************************************************************)
(* C1: for every set of parseable records and every two processing orders, *)
(* the conflicts reported are the same set of (kind, token, unordered pair *)
(* of files), each reported exactly once, so the number of conflicts does  *)
(* not depend on the order.  Stated on the finished run against every      *)
(* other order of the same files.                                          *)
(***************************************************************************)
C1_ConflictsOrderIndependent ==
    (ConflictsReturned /\ RecordsOnly) =>
        \A q \in Orders(dir) :
            LET r == RunCheckConflicts(q)
            IN  /\ ConflictSet(r.log) = ConflictSet(log)
                /\ Len(r.log) = Len(log)

(***************************************************************************)
(* C2: when exactly two records share the same id, exactly one             *)
(* duplicate-id conflict is reported, naming the file processed second as  *)
(* the current file and the file processed first as the recorded one.      *)
(* C2_Original takes every id that is present; C2_DuplicateIdOnce takes    *)
(* the ids that are non-empty (truthy), which is what line 139 tests.      *)
(***************************************************************************)
SharedIdPairs == {P \in Pairs(Recs) : \A x, y \in P : IdOf(x) = IdOf(y) /\ IdOf(x) # Undefined}
SharedTruthyIdPairs == {P \in SharedIdPairs : \A x \in P : Truthy(IdOf(x))}

OneDuplicateIdLineFor(P) ==
    /\ Len(DuplicateIdLines) = 1
    /\ DuplicateIdLines[1].file = dir[Max(P)].file
    /\ DuplicateIdLines[1].other = dir[Min(P)].file
    /\ DuplicateIdLines[1].token = IdOf(Min(P))

C2_Original ==
    (ConflictsReturned /\ RecordsOnly /\ Cardinality(SharedIdPairs) = 1) =>
        \A P \in SharedIdPairs : OneDuplicateIdLineFor(P)

C2_DuplicateIdOnce ==
    (ConflictsReturned /\ RecordsOnly /\ Cardinality(SharedTruthyIdPairs) = 1) =>
        \A P \in SharedTruthyIdPairs : OneDuplicateIdLineFor(P)

C2_Witness ==
    /\ ConflictsReturned /\ RecordsOnly /\ Cardinality(SharedTruthyIdPairs) = 1
    /\ Len(dir) = 3
    /\ Len(DuplicateIdLines) = 1

(***************************************************************************)
(* C3: one file declares an id and a different file declares the same      *)
(* token as its alias, with no other shared token in the set: exactly one  *)
(* conflict is reported in total, an id-alias-collision between the two    *)
(* files, whichever of the two is processed first.                         *)
(***************************************************************************)
\* x declares the id, y the alias; nothing else in the set is shared
IdAliasCase(x, y) ==
    /\ x # y /\ Recs = {x, y}
    /\ Truthy(IdOf(x)) /\ AliasOf(y) = IdOf(x)
    /\ AliasOf(x) = Undefined \/ AliasOf(x) \notin {IdOf(x), IdOf(y), AliasOf(y)}
    /\ IdOf(y) = Undefined \/ IdOf(y) \notin {IdOf(x), AliasOf(x), AliasOf(y)}

C3_OneIdAliasCollision ==
    (ConflictsReturned /\ RecordsOnly) =>
        \A x, y \in Recs :
            IdAliasCase(x, y) =>
                /\ Len(log) = 1
                /\ ConflictKey(log[1]) =
                       [kind |-> "id-alias-collision", token |-> IdOf(x),
                        pair |-> {dir[x].file, dir[y].file}]

\* the alias is processed first, so the collision is found from the id's side
C3_Witness ==
    /\ ConflictsReturned /\ RecordsOnly
    /\ \E x, y \in Recs : IdAliasCase(x, y) /\ y < x
    /\ Len(log) = 1

(***************************************************************************)
(* C4: checkConflicts returns false if and only if the set of parseable    *)
(* records is internally consistent: ids pairwise distinct, aliases        *)
(* pairwise distinct, no alias equal to the id of any record (its own      *)
(* included).  C4_Original takes every token that is present;              *)
(* C4_NoConflictIffConsistent takes the non-empty (truthy) tokens, which   *)
(* is what lines 139 and 159 test.                                         *)
(***************************************************************************)
Consistent(Counts(_)) ==
    /\ \A x, y \in Recs : (x # y /\ Counts(IdOf(x))) => IdOf(x) # IdOf(y)
    /\ \A x, y \in Recs : (x # y /\ Counts(AliasOf(x))) => AliasOf(x) # AliasOf(y)
    /\ \A x, y \in Recs : Counts(AliasOf(x)) => AliasOf(x) # IdOf(y)

Present(v) == v # Undefined

C4_Original ==
    (ConflictsReturned /\ RecordsOnly) => (hasConflicts = FALSE <=> Consistent(Present))

C4_NoConflictIffConsistent ==
    (ConflictsReturned /\ RecordsOnly) => (hasConflicts = FALSE <=> Consistent(Truthy))

\* three records with pairwise distinct tokens: no conflict
C4_Witness ==
    /\ ConflictsReturned /\ RecordsOnly
    /\ Cardinality(Recs) = 3
    /\ Consistent(Truthy)
    /\ \E x \in Recs : Truthy(AliasOf(x))
    /\ hasConflicts = FALSE

(***************************************************************************)
(* validateFiles                                                           *)
(***************************************************************************)
\* lines 67-78: load and compile the schema; a failure throws out of main
ValidateFilesStart ==
    /\ pc = "validateFiles"
    /\ pc' = IF schemaOk THEN "validateLoop" ELSE "threw"
    /\ hasErrors' = FALSE
    /\ vi' = 1
    /\ UNCHANGED <<argv, schemaOk, dir, files, exitCode, exited>>
    /\ UNCHANGED otherVars
    /\ UNCHANGED ccVars

\* lines 80-108: one file: parse, strip, validate
ValidateFile ==
    /\ pc = "validateLoop"
    /\ vi <= Len(files)
    /\ LET loaded == files[vi].data
       IN  IF LoadJsonThrows(loaded)
           THEN hasErrors' = TRUE /\ vi' = vi + 1 /\ pc' = pc       \* catch: FAIL, continue
           ELSE IF PropertyReadThrows(loaded)
           THEN hasErrors' = hasErrors /\ vi' = vi /\ pc' = "threw"  \* stripPlatformFields(null)
           ELSE /\ hasErrors' = (hasErrors \/ ~loaded.valid)
                /\ vi' = vi + 1
                /\ pc' = pc
    /\ UNCHANGED <<argv, schemaOk, dir, files, exitCode, exited>>
    /\ UNCHANGED otherVars
    /\ UNCHANGED ccVars

\* lines 110 and 221-222: return hasErrors; if (hasErrors) exitCode = 1
ValidateFilesReturn ==
    /\ pc = "validateLoop"
    /\ vi > Len(files)
    /\ exitCode' = IF hasErrors THEN 1 ELSE exitCode
    /\ pc' = "afterValidate"
    /\ UNCHANGED <<argv, schemaOk, dir, files, vi, hasErrors, exited>>
    /\ UNCHANGED otherVars
    /\ UNCHANGED ccVars

(***************************************************************************)
(* main of validate.js                                                     *)
(***************************************************************************)
\* line 200: conflict-only mode
ConflictOnly(a) == a.doConflicts /\ ~a.doAll /\ Len(a.fileArgs) = 0

\* lines 207-212: the files to validate
FilesToValidate(a, d) == IF a.doAll THEN d ELSE a.fileArgs

\* lines 200-201: conflict-only mode calls checkConflicts
MainConflictOnly ==
    /\ pc = "main"
    /\ ConflictOnly(argv)
    /\ pc' = "checkConflicts"
    /\ UNCHANGED <<argv, schemaOk, dir, files, vi, hasErrors, exitCode, exited>>
    /\ UNCHANGED otherVars
    /\ UNCHANGED ccVars

\* lines 202-203: if (conflicts) exitCode = 1; process.exit(exitCode)
MainConflictOnlyExit ==
    /\ pc = "ccReturned"
    /\ ConflictOnly(argv)
    /\ exitCode' = IF hasConflicts THEN 1 ELSE exitCode
    /\ exited' = exitCode'
    /\ pc' = "exited"
    /\ UNCHANGED <<argv, schemaOk, dir, files, vi, hasErrors>>
    /\ UNCHANGED otherVars
    /\ UNCHANGED ccVars

\* lines 207-217: nothing to validate and no conflict check: exit 0
MainNothingToDo ==
    /\ pc = "main"
    /\ ~ConflictOnly(argv)
    /\ files' = FilesToValidate(argv, dir)
    /\ Len(files') = 0 /\ ~argv.doConflicts
    /\ exited' = 0
    /\ pc' = "exited"
    /\ UNCHANGED <<argv, schemaOk, dir, vi, hasErrors, exitCode>>
    /\ UNCHANGED otherVars
    /\ UNCHANGED ccVars

\* lines 207-221: there are files: validate them
MainValidate ==
    /\ pc = "main"
    /\ ~ConflictOnly(argv)
    /\ files' = FilesToValidate(argv, dir)
    /\ Len(files') > 0
    /\ pc' = "validateFiles"
    /\ UNCHANGED <<argv, schemaOk, dir, vi, hasErrors, exitCode, exited>>
    /\ UNCHANGED otherVars
    /\ UNCHANGED ccVars

\* lines 207-227: --all --check-conflicts over an empty directory: no validation
MainSkipValidate ==
    /\ pc = "main"
    /\ ~ConflictOnly(argv)
    /\ files' = FilesToValidate(argv, dir)
    /\ Len(files') = 0 /\ argv.doConflicts
    /\ pc' = "checkConflicts"
    /\ UNCHANGED <<argv, schemaOk, dir, vi, hasErrors, exitCode, exited>>
    /\ UNCHANGED otherVars
    /\ UNCHANGED ccVars

\* lines 226-227: validation is over and --check-conflicts was given
MainRunConflicts ==
    /\ pc = "afterValidate"
    /\ argv.doConflicts
    /\ pc' = "checkConflicts"
    /\ UNCHANGED <<argv, schemaOk, dir, files, vi, hasErrors, exitCode, exited>>
    /\ UNCHANGED otherVars
    /\ UNCHANGED ccVars

\* line 231: validation is over and no conflict check was asked for
MainExit ==
    /\ pc = "afterValidate"
    /\ ~argv.doConflicts
    /\ exited' = exitCode
    /\ pc' = "exited"
    /\ UNCHANGED <<argv, schemaOk, dir, files, vi, hasErrors, exitCode>>
    /\ UNCHANGED otherVars
    /\ UNCHANGED ccVars

\* lines 228-231 without line 228: the result of checkConflicts is dropped
MainCombinedExitIgnoringConflicts ==
    /\ pc = "ccReturned"
    /\ ~ConflictOnly(argv)
    /\ exitCode' = exitCode
    /\ exited' = exitCode'
    /\ pc' = "exited"
    /\ UNCHANGED <<argv, schemaOk, dir, files, vi, hasErrors>>
    /\ UNCHANGED otherVars
    /\ UNCHANGED ccVars

\* lines 228-231: if (conflicts) exitCode = 1; process.exit(exitCode)
MainCombinedExit ==
    /\ pc = "ccReturned"
    /\ ~ConflictOnly(argv)
    /\ exitCode' = IF hasConflicts THEN 1 ELSE exitCode
    /\ exited' = exitCode'
    /\ pc' = "exited"
    /\ UNCHANGED <<argv, schemaOk, dir, files, vi, hasErrors>>
    /\ UNCHANGED otherVars
    /\ UNCHANGED ccVars

\* lines 234-237: main().catch: an error thrown anywhere exits 1
MainCatch ==
    /\ pc = "threw"
    /\ exited' = 1
    /\ pc' = "exited"
    /\ UNCHANGED <<argv, schemaOk, dir, files, vi, hasErrors, exitCode>>
    /\ UNCHANGED otherVars
    /\ UNCHANGED ccVars

(***************************************************************************)
(* Specification of the validate CLI: any flags, explicit files and        *)
(* directory contents; the schema document loads or does not.              *)
(***************************************************************************)
CliData == {Unparseable, JsonNull, Obj("\"a\"", Undefined, TRUE),
            Obj("\"a\"", Undefined, FALSE), Obj("\"b\"", Undefined, TRUE)}

ArgData == {Unparseable, JsonNull, Obj("\"c\"", Undefined, TRUE), Obj("\"c\"", Undefined, FALSE)}

\* explicit file arguments: paths outside the enumeration, named -1..-n
FileArgsOf(c) == [j \in DOMAIN c |-> [file |-> -j, data |-> c[j]]]

InitCli ==
    /\ \E n \in 0..MaxCliFiles : \E c \in [1..n -> CliData] : dir = DirOf(c)
    /\ \E n \in 0..MaxArgs : \E c \in [1..n -> ArgData] :
           argv \in [doAll : BOOLEAN, doConflicts : BOOLEAN, fileArgs : {FileArgsOf(c)}]
    /\ schemaOk \in BOOLEAN
    /\ pc = "main"
    /\ files = << >>
    /\ vi = 1
    /\ hasErrors = FALSE
    /\ exitCode = 0
    /\ exited = NoExit
    /\ ci = 1
    /\ ids = EmptyMap
    /\ aliases = EmptyMap
    /\ hasConflicts = FALSE
    /\ log = << >>
    /\ StripIdle
    /\ BundleIdle
    /\ EnrichIdle

NextCli ==
    \/ MainConflictOnly \/ MainConflictOnlyExit
    \/ MainNothingToDo \/ MainValidate \/ MainSkipValidate
    \/ ValidateFilesStart \/ ValidateFile \/ ValidateFilesReturn
    \/ MainRunConflicts \/ MainExit \/ MainCombinedExit \/ MainCatch
    \/ CheckConflictsStart \/ CheckConflictsFile \/ CheckConflictsReturn

SpecCli == InitCli /\ [][NextCli]_vars

(***************************************************************************)
(* C5: the exit status of the validate CLI is non-zero if a validated file *)
(* failed to parse or failed the schema, or the requested conflict check   *)
(* found a conflict, and zero otherwise (nothing to do included).          *)
(* C5_Original is that statement.  C5_ExitStatus adds the third way the    *)
(* process ends non-zero, lines 234-237: the run aborts on an error thrown *)
(* by the schema load (when there are files to validate) or by a server    *)
(* file holding JSON null reached by the conflict check.                   *)
(***************************************************************************)
Validated == IF ConflictOnly(argv) THEN << >> ELSE FilesToValidate(argv, dir)

\* a validated file failed to parse or failed the schema
ValidationFailed ==
    \E k \in DOMAIN Validated : LoadJsonThrows(Validated[k].data) \/ ~Validated[k].data.valid

\* the conflict check was requested and the records of the directory conflict
ConflictFound == argv.doConflicts /\ ~Consistent(Truthy)

SchemaAbort == Len(Validated) > 0 /\ ~schemaOk
NullFileAbort == argv.doConflicts /\ \E j \in DOMAIN dir : dir[j].data.kind = "null"

C5_Original ==
    exited # NoExit => (exited # 0 <=> (ValidationFailed \/ ConflictFound))

C5_ExitStatus ==
    exited # NoExit =>
        (exited # 0 <=> (ValidationFailed \/ ConflictFound \/ SchemaAbort \/ NullFileAbort))

\* validation passed, the conflict check that followed found a conflict: exit 1
C5_Witness ==
    /\ exited = 1
    /\ Len(Validated) > 0 /\ ~ValidationFailed /\ ~SchemaAbort /\ ~NullFileAbort
    /\ ConflictFound

(***************************************************************************)
(* stripPlatformFields                                                     *)
(*                                                                         *)
(* A field name is a sequence of characters, so that startsWith is         *)
(* computed.  A record is the sequence of its [key, value] properties in   *)
(* insertion order, which is the order of Object.keys for these names.     *)
(***************************************************************************)
\* line 23
PLATFORM_FIELDS == << <<"b","a","d","g","e","s">>, <<"s","t","a","t","s">>,
                      <<"s","p","o","n","s","o","r","e","d">>,
                      <<"f","e","a","t","u","r","e","d">> >>

\* line 52: the reserved prefix
PlatformPrefix == <<"_","p","l","a","t","f","o","r","m">>

\* String.prototype.startsWith
StartsWith(s, prefix) == Len(s) >= Len(prefix) /\ SubSeq(s, 1, Len(prefix)) = prefix

\* data[key]: the value of the property, Undefined when there is none
Get(obj, key) ==
    IF \E k \in DOMAIN obj : obj[k].key = key
    THEN obj[CHOOSE k \in DOMAIN obj : obj[k].key = key].value
    ELSE Undefined

\* delete data[key]
Delete(obj, key) == SelectSeq(obj, LAMBDA e : e.key # key)

\* Object.keys(data)
Keys(obj) == [k \in DOMAIN obj |-> obj[k].key]

Warning(field, filePath) == [field |-> field, file |-> filePath]

\* lines 42-49: the loop over PLATFORM_FIELDS, from st = [data, warnings]
RECURSIVE StripReserved(_, _, _)
StripReserved(st, fields, filePath) ==
    IF fields = << >> THEN st
    ELSE LET field == Head(fields)
             next == IF Get(st.data, field) # Undefined
                     THEN [data |-> Delete(st.data, field),
                           warnings |-> Append(st.warnings, Warning(field, filePath))]
                     ELSE st
         IN  StripReserved(next, Tail(fields), filePath)

\* line 52 with === in place of startsWith
StartsWithPlatformExact(key) == key = PlatformPrefix

\* line 52
StartsWithPlatform(key) == StartsWith(key, PlatformPrefix)

\* lines 51-58: the loop over the keys Object.keys returned before the loop
RECURSIVE StripPrefixed(_, _, _)
StripPrefixed(st, keys, filePath) ==
    IF keys = << >> THEN st
    ELSE LET key == Head(keys)
             next == IF StartsWithPlatform(key)
                     THEN [data |-> Delete(st.data, key),
                           warnings |-> Append(st.warnings, Warning(key, filePath))]
                     ELSE st
         IN  StripPrefixed(next, Tail(keys), filePath)

\* lines 40-60
StripPlatformFieldsOf(obj, filePath) ==
    LET st1 == StripReserved([data |-> obj, warnings |-> << >>], PLATFORM_FIELDS, filePath)
    IN  StripPrefixed(st1, Keys(st1.data), filePath)

\* the call of line 93 on the loaded record
StripPlatformFields ==
    /\ pc = "strip"
    /\ LET st == StripPlatformFieldsOf(data, "server.json")
       IN  data' = st.data /\ warnings' = st.warnings
    /\ pc' = "stripped"
    /\ UNCHANGED <<authored, argv, schemaOk, dir, files, vi, hasErrors, exitCode, exited>>
    /\ UNCHANGED ccVars
    /\ UNCHANGED bundleVars
    /\ UNCHANGED enrichVars

(***************************************************************************)
(* Specification of stripPlatformFields alone: any record of at most       *)
(* MaxFields properties with names from FieldNames.  JSON.parse gives no   *)
(* property the value undefined, so a value is null or something else.     *)
(***************************************************************************)
FieldNames ==
    { PLATFORM_FIELDS[k] : k \in DOMAIN PLATFORM_FIELDS } \cup
    { PlatformPrefix,                                        \* "_platform"
      PlatformPrefix \o <<"_","i","d">>,                     \* "_platform_id"
      <<"_","p","l","a","t","f","o","r">>,                   \* "_platfor"
      <<"x">> \o PlatformPrefix,                             \* "x_platform"
      <<"B","a","d","g","e","s">>,                           \* "Badges"
      <<"n","a","m","e">> }                                  \* "name"

FieldValues == {"null", "\"v\""}

\* a record has no two properties of the same name
IsObject(o) == \A i, j \in DOMAIN o : i # j => o[i].key # o[j].key

CliIdle ==
    /\ argv = NoArgs /\ schemaOk = TRUE /\ dir = << >> /\ files = << >> /\ vi = 1
    /\ hasErrors = FALSE /\ exitCode = 0 /\ exited = NoExit

ConflictsIdle ==
    ci = 1 /\ ids = EmptyMap /\ aliases = EmptyMap /\ hasConflicts = FALSE /\ log = << >>

InitStrip ==
    /\ \E n \in 0..MaxFields : \E o \in [1..n -> [key : FieldNames, value : FieldValues]] :
           IsObject(o) /\ authored = o
    /\ data = authored
    /\ warnings = << >>
    /\ pc = "strip"
    /\ CliIdle
    /\ ConflictsIdle
    /\ BundleIdle
    /\ EnrichIdle

NextStrip == StripPlatformFields

SpecStrip == InitStrip /\ [][NextStrip]_vars

(***************************************************************************)
(* C7: stripPlatformFields removes every top-level field named badges,     *)
(* stats, sponsored or featured and every top-level field whose name       *)
(* starts with _platform, leaves every other field untouched (value and    *)
(* order), and returns exactly one warning per removed field; a record     *)
(* with none of these fields is unchanged, with zero warnings.             *)
(***************************************************************************)
IsReservedName(key) ==
    \/ key \in {<<"b","a","d","g","e","s">>, <<"s","t","a","t","s">>,
                <<"s","p","o","n","s","o","r","e","d">>, <<"f","e","a","t","u","r","e","d">>}
    \/ /\ Len(key) >= 9
       /\ <<key[1], key[2], key[3], key[4], key[5], key[6], key[7], key[8], key[9]>>
              = <<"_","p","l","a","t","f","o","r","m">>

RemovedNames == {authored[k].key : k \in {i \in DOMAIN authored : IsReservedName(authored[i].key)}}

NoName == <<Undefined>>
NoCategories == <<Undefined>>
NoBadges == <<Undefined>>

NoPublisher == [present |-> FALSE, official |-> Undefined, verified |-> Undefined]
Publisher(official, verified) == [present |-> TRUE, official |-> official, verified |-> verified]

NoTransport == [present |-> FALSE, type |-> Undefined]
Transport(type) == [present |-> TRUE, type |-> type]

\* a server definition as authored, without the derived fields
Server(id, name, publisher, transport, cats) ==
    [kind |-> "object", id |-> id, name |-> name, publisher |-> publisher,
     transport |-> transport, categories |-> cats,
     badges |-> NoBadges, hosting_type |-> Undefined, timestamps |-> Undefined]

\* new Date().toISOString(): the clock is not modelled, every instant reads Now
Now == "now"

(***************************************************************************)
(* enrichServer, lines 40-67                                               *)
(***************************************************************************)
\* lines 44-49 with `official` tested by truthiness instead of === true
BadgesOfTruthy(server) ==
    IF server.publisher.present /\ Truthy(server.publisher.official)
    THEN <<"official">>
    ELSE << >>

\* lines 44-49
BadgesOf(server) ==
    IF server.publisher.present /\ server.publisher.official = "true"
    THEN <<"official">>
    ELSE << >>

\* lines 51-58 with the final else (line 57) giving "remote"
HostingTypeOfElseRemote(server) ==
    IF server.transport.present /\ server.transport.type = "\"stdio\"" THEN "local"
    ELSE "remote"

\* lines 51-58
HostingTypeOf(server) ==
    IF server.transport.present /\ server.transport.type = "\"stdio\"" THEN "local"
    ELSE IF server.transport.present /\ server.transport.type = "\"http\"" THEN "remote"
    ELSE "local"

\* lines 40-67 with each derived field assigned only where the input has none
EnrichServerKeepingAuthored(server) ==
    [server EXCEPT !.badges = IF server.badges = NoBadges THEN BadgesOf(server) ELSE @,
                   !.hosting_type = IF server.hosting_type = Undefined
                                    THEN HostingTypeOf(server) ELSE @,
                   !.timestamps = IF server.timestamps = Undefined THEN Now ELSE @]

\* lines 40-67
EnrichServer(server) ==
    [server EXCEPT !.badges = BadgesOf(server),
                   !.hosting_type = HostingTypeOf(server),
                   !.timestamps = Now]

(***************************************************************************)
(* String.prototype.localeCompare, line 101, on names made of the letters  *)
(* a-z and A-Z, as ICU's root collation orders them: by letter first       *)
(* (case ignored, a shorter prefix first), and when the letters agree, by  *)
(* case at the first position where the case differs, lowercase first.     *)
(***************************************************************************)
Letters == <<"a","b","c","d","e","f","g","h","i","j","k","l","m",
             "n","o","p","q","r","s","t","u","v","w","x","y","z">>
Capitals == <<"A","B","C","D","E","F","G","H","I","J","K","L","M",
              "N","O","P","Q","R","S","T","U","V","W","X","Y","Z">>

IsCapital(c) == \E k \in DOMAIN Capitals : Capitals[k] = c
LetterIndex(c) == CHOOSE k \in DOMAIN Letters : Letters[k] = c \/ Capitals[k] = c

\* the primary level: letters, case ignored
RECURSIVE ComparePrimary(_, _)
ComparePrimary(a, b) ==
    IF a = << >> /\ b = << >> THEN 0
    ELSE IF a = << >> THEN -1
    ELSE IF b = << >> THEN 1
    ELSE IF LetterIndex(Head(a)) < LetterIndex(Head(b)) THEN -1
    ELSE IF LetterIndex(Head(a)) > LetterIndex(Head(b)) THEN 1
    ELSE ComparePrimary(Tail(a), Tail(b))

\* the tertiary level, for names with the same letters: lowercase first
RECURSIVE CompareCase(_, _)
CompareCase(a, b) ==
    IF a = << >> THEN 0
    ELSE IF IsCapital(Head(a)) = IsCapital(Head(b)) THEN CompareCase(Tail(a), Tail(b))
    ELSE IF IsCapital(Head(a)) THEN 1
    ELSE -1

\* a comparison by UTF-16 code unit, capitals (65-90) before lowercase (97-122)
CodeUnit(c) == IF IsCapital(c) THEN 64 + LetterIndex(c) ELSE 96 + LetterIndex(c)

RECURSIVE CompareCodeUnits(_, _)
CompareCodeUnits(a, b) ==
    IF a = << >> /\ b = << >> THEN 0
    ELSE IF a = << >> THEN -1
    ELSE IF b = << >> THEN 1
    ELSE IF CodeUnit(Head(a)) < CodeUnit(Head(b)) THEN -1
    ELSE IF CodeUnit(Head(a)) > CodeUnit(Head(b)) THEN 1
    ELSE CompareCodeUnits(Tail(a), Tail(b))

\* what a < b on strings would give in place of localeCompare
LocaleCompareByCodeUnit(a, b) == CompareCodeUnits(a, b)

\* a.localeCompare(b)
LocaleCompare(a, b) ==
    LET p == ComparePrimary(a, b)
    IN  IF p # 0 THEN p ELSE CompareCase(a, b)

\* a.name || ""
NameOrEmpty(server) == IF server.name = NoName THEN << >> ELSE server.name

\* line 101: the comparator
CompareServers(a, b) == LocaleCompare(NameOrEmpty(a.server), NameOrEmpty(b.server))

\* Array.prototype.sort is stable: x goes before the first element it is less than
RECURSIVE InsertSorted(_, _)
InsertSorted(x, sorted) ==
    IF sorted = << >> THEN <<x>>
    ELSE IF CompareServers(x, Head(sorted)) < 0 THEN <<x>> \o sorted
    ELSE <<Head(sorted)>> \o InsertSorted(x, Tail(sorted))

RECURSIVE SortInto(_, _)
SortInto(sorted, rest) ==
    IF rest = << >> THEN sorted
    ELSE SortInto(InsertSorted(Head(rest), sorted), Tail(rest))

\* line 101: servers.sort(...)
SortServers(ss) == SortInto(<< >>, ss)

(***************************************************************************)
(* build-bundle.js: assembling the bundle, lines 103-248                   *)
(***************************************************************************)
\* s.categories || []
CategoriesOrEmpty(server) == IF server.categories = NoCategories THEN << >> ELSE server.categories

\* lines 104-109
UsedCategories(ss) ==
    UNION {{CategoriesOrEmpty(ss[k].server)[i] : i \in DOMAIN CategoriesOrEmpty(ss[k].server)} :
               k \in DOMAIN ss}

\* line 114: slice(0, 6)
FeaturedLimit == 6
Slice(s, n) == SubSeq(s, 1, IF Len(s) < n THEN Len(s) ELSE n)

\* line 113: the filter's test
IsFeatured(e) ==
    e.server.publisher.present /\ Truthy(e.server.publisher.official)
        /\ Truthy(e.server.publisher.verified)

\* lines 112-115
FeaturedIds(ss) ==
    LET picked == Slice(SelectSeq(ss, IsFeatured), FeaturedLimit)
    IN  [k \in DOMAIN picked |-> picked[k].server.id]

\* lines 129-143 without the filter of line 133: every category of the store
CategoryOptionsUnfiltered(cats, used) ==
    <<[id |-> "all", label |-> "All Categories"]>> \o
    [k \in DOMAIN cats |-> [id |-> cats[k].id, label |-> cats[k].name]]

\* lines 129-143: the options of the category filter
CategoryOptions(cats, used) ==
    LET kept == SelectSeq(cats, LAMBDA c : c.id \in used)
    IN  <<[id |-> "all", label |-> "All Categories"]>> \o
        [k \in DOMAIN kept |-> [id |-> kept[k].id, label |-> kept[k].name]]

\* lines 118-248: the bundle, without its fixed descriptors and its updated_at
Bundle(ss, cats) ==
    [servers |-> [k \in DOMAIN ss |-> ss[k].server],
     categories |-> cats,
     category_options |-> CategoryOptions(cats, UsedCategories(ss)),
     featured_server_ids |-> FeaturedIds(ss)]

\* lines 87-98 for one file: TRUE when loadJson or enrichServer throws
LoadFails(f) == LoadJsonThrows(f.data) \/ PropertyReadThrows(f.data)

Loaded(f) == [file |-> f.file, server |-> EnrichServer(f.data)]

(***************************************************************************)
(* main of build-bundle.js                                                 *)
(***************************************************************************)
\* lines 75-81: load categories.json, exit 1 when that fails
BuildLoadCategories ==
    /\ pc = "build"
    /\ IF categoriesFile.ok
       THEN categories' = categoriesFile.list /\ pc' = "loadServers" /\ exited' = exited
       ELSE categories' = categories /\ pc' = "exited" /\ exited' = 1
    /\ servers' = << >>
    /\ si' = 1
    /\ UNCHANGED <<categoriesFile, bundleFile, dir>>
    /\ UNCHANGED <<argv, schemaOk, files, vi, hasErrors, exitCode>>
    /\ UNCHANGED <<ccVars, stripVars>>
    /\ UNCHANGED enrichVars

\* lines 87-98 with `continue` in place of process.exit(1): a failing file is skipped
BuildLoadServerSkippingFailures ==
    /\ pc = "loadServers"
    /\ si <= Len(dir)
    /\ servers' = IF LoadFails(dir[si]) THEN servers ELSE Append(servers, Loaded(dir[si]))
    /\ si' = si + 1
    /\ UNCHANGED <<pc, exited>>
    /\ UNCHANGED <<categoriesFile, categories, bundleFile, dir>>
    /\ UNCHANGED <<argv, schemaOk, files, vi, hasErrors, exitCode>>
    /\ UNCHANGED <<ccVars, stripVars>>
    /\ UNCHANGED enrichVars

\* lines 87-98: one file: load, enrich, push; exit 1 when that fails
BuildLoadServer ==
    /\ pc = "loadServers"
    /\ si <= Len(dir)
    /\ IF LoadFails(dir[si])
       THEN servers' = servers /\ si' = si /\ pc' = "exited" /\ exited' = 1
       ELSE servers' = Append(servers, Loaded(dir[si])) /\ si' = si + 1
            /\ pc' = pc /\ exited' = exited
    /\ UNCHANGED <<categoriesFile, categories, bundleFile, dir>>
    /\ UNCHANGED <<argv, schemaOk, files, vi, hasErrors, exitCode>>
    /\ UNCHANGED <<ccVars, stripVars>>
    /\ UNCHANGED enrichVars

\* lines 100-101: every file is loaded: sort
BuildSort ==
    /\ pc = "loadServers"
    /\ si > Len(dir)
    /\ servers' = SortServers(servers)
    /\ pc' = "assemble"
    /\ UNCHANGED <<categoriesFile, categories, si, bundleFile, dir, exited>>
    /\ UNCHANGED <<argv, schemaOk, files, vi, hasErrors, exitCode>>
    /\ UNCHANGED <<ccVars, stripVars>>
    /\ UNCHANGED enrichVars

\* lines 103-256: assemble the bundle and write it; the process then ends with status 0
BuildWrite ==
    /\ pc = "assemble"
    /\ bundleFile' = <<Bundle(servers, categories)>>
    /\ pc' = "done"
    /\ exited' = 0
    /\ UNCHANGED <<categoriesFile, categories, servers, si, dir>>
    /\ UNCHANGED <<argv, schemaOk, files, vi, hasErrors, exitCode>>
    /\ UNCHANGED <<ccVars, stripVars>>
    /\ UNCHANGED enrichVars

\* build-bundle.js as a function of the enumeration: << >> when the build aborts
RECURSIVE LoadAll(_, _)
LoadAll(acc, fs) ==
    IF fs = << >> THEN [ok |-> TRUE, servers |-> acc]
    ELSE IF LoadFails(Head(fs)) THEN [ok |-> FALSE, servers |-> acc]
    ELSE LoadAll(Append(acc, Loaded(Head(fs))), Tail(fs))

BuildBundle(store, fs) ==
    IF ~store.ok THEN << >>
    ELSE LET l == LoadAll(<< >>, fs)
         IN  IF l.ok THEN <<Bundle(SortServers(l.servers), store.list)>> ELSE << >>

(***************************************************************************)
(* Specification of the bundle build: the directory holds at most          *)
(* MaxBundleFiles files with contents from BundleData; categories.json     *)
(* loads or does not.                                                      *)
(***************************************************************************)
Charlie == <<"C","h","a","r","l","i","e">>
alpha == <<"a","l","p","h","a">>
Alpha == <<"A","l","p","h","a">>
Bravo == <<"B","r","a","v","o">>

BundleData ==
    { Unparseable, JsonNull,
      Server("\"charlie\"", Charlie, Publisher("true", "true"), Transport("\"stdio\""), <<"dev">>),
      Server("\"alpha\"", alpha, NoPublisher, NoTransport, NoCategories),
      Server("\"bravo\"", Bravo, Publisher("\"yes\"", "true"), Transport("\"http\""), <<"data">>),
      Server("\"alpha-2\"", Alpha, Publisher("true", "true"), Transport("\"http\""), <<"dev", "data">>),
      Server("\"alpha-3\"", alpha, Publisher("true", "false"), Transport("\"stdio\""), << >>),
      Server("\"noname\"", NoName, Publisher("false", Undefined), Transport("\"sse\""), <<"other">>),
      \* the "bravo" record again, authored with values of the derived fields
      [Server("\"bravo\"", Bravo, Publisher("\"yes\"", "true"), Transport("\"http\""), <<"data">>)
          EXCEPT !.badges = <<"official">>, !.hosting_type = "local",
                 !.timestamps = "2020-01-01T00:00:00.000Z"] }

CategoryStore ==
    <<[id |-> "dev", name |-> "Developer Tools"], [id |-> "data", name |-> "Data"],
      [id |-> "cloud", name |-> "Cloud"]>>

InitBundle ==
    /\ \E n \in 0..MaxBundleFiles : \E c \in [1..n -> BundleData] : dir = DirOf(c)
    /\ \E ok \in BOOLEAN :
           categoriesFile = [ok |-> ok, list |-> IF ok THEN CategoryStore ELSE << >>]
    /\ categories = << >>
    /\ servers = << >>
    /\ si = 1
    /\ bundleFile = << >>
    /\ pc = "build"
    /\ argv = NoArgs /\ schemaOk = TRUE /\ files = << >> /\ vi = 1
    /\ hasErrors = FALSE /\ exitCode = 0 /\ exited = NoExit
    /\ ConflictsIdle
    /\ StripIdle
    /\ EnrichIdle

NextBundle == BuildLoadCategories \/ BuildLoadServer \/ BuildSort \/ BuildWrite

SpecBundle == InitBundle /\ [][NextBundle]_vars

(***************************************************************************)
(* Vocabulary of the claims about the bundle                               *)
(***************************************************************************)
\* bundle.json was written by this run
Written == bundleFile # << >>

\* the input makes the build fail: the store or some server file does not load
BuildInputFails == ~categoriesFile.ok \/ \E j \in DOMAIN dir : LoadFails(dir[j])

\* the name the sort compares, of the k-th record of the sorted servers
SortedName(k) == IF servers[k].server.name = NoName THEN << >> ELSE servers[k].server.name

\* a name with its case ignored: the alphabet positions of its letters
CaseIgnored(name) == [k \in DOMAIN name |-> LetterIndex(name[k])]

\* lexicographic order of two sequences of numbers, a proper prefix first
SeqLess(a, b) ==
    \E k \in 1..Len(b) :
        /\ k - 1 <= Len(a)
        /\ \A i \in 1..(k - 1) : a[i] = b[i]
        /\ k = Len(a) + 1 \/ (k <= Len(a) /\ a[k] < b[k])

\* names that differ only in case: a is lowercase where they first differ
LowercaseFirst(a, b) ==
    \E k \in DOMAIN a :
        /\ \A i \in 1..(k - 1) : a[i] = b[i]
        /\ ~IsCapital(a[k]) /\ IsCapital(b[k])

(***************************************************************************)
(* C6: a bundle build is all-or-nothing: if the category store cannot be   *)
(* loaded or any server file fails to read or parse, the process exits     *)
(* non-zero and bundle.json is never written in that run; the bundle is    *)
(* written only after every server file has been loaded and enriched.      *)
(***************************************************************************)
C6_AllOrNothing ==
    /\ BuildInputFails => (~Written /\ pc # "done" /\ (pc = "exited" => exited # 0))
    /\ Written =>
           /\ categoriesFile.ok
           /\ Len(bundleFile[1].servers) = Len(dir)
           /\ \A j \in DOMAIN dir :
                  /\ ~LoadFails(dir[j])
                  /\ \E k \in DOMAIN servers :
                         servers[k] = [file |-> dir[j].file, server |-> EnrichServer(dir[j].data)]

\* the third file fails after two were loaded: exit 1, nothing written
C6_Witness ==
    /\ pc = "exited" /\ exited = 1
    /\ Len(servers) = 2 /\ Len(dir) = 3
    /\ ~Written

(***************************************************************************)
(* C8: in every bundle the records are in ascending order of name compared *)
(* case-insensitively.  C8_Original adds, as claimed, that records whose   *)
(* names are equal case-insensitively keep their load order.               *)
(* C8_SortedByName states what localeCompare gives instead: names that     *)
(* differ only in case are ordered lowercase first at the first letter     *)
(* where they differ, whatever the load order, and only records with       *)
(* identical names (a missing name counts as the empty name) keep their    *)
(* load order.                                                             *)
(***************************************************************************)
C8_Original ==
    Written =>
        \A i, j \in DOMAIN servers :
            i < j =>
                /\ CaseIgnored(SortedName(i)) = CaseIgnored(SortedName(j))
                       \/ SeqLess(CaseIgnored(SortedName(i)), CaseIgnored(SortedName(j)))
                /\ CaseIgnored(SortedName(i)) = CaseIgnored(SortedName(j))
                       => servers[i].file < servers[j].file

C8_SortedByName ==
    Written =>
        /\ bundleFile[1].servers = [k \in DOMAIN servers |-> servers[k].server]
        /\ \A i, j \in DOMAIN servers :
            i < j =>
                IF SortedName(i) = SortedName(j)
                THEN servers[i].file < servers[j].file
                ELSE IF CaseIgnored(SortedName(i)) = CaseIgnored(SortedName(j))
                THEN LowercaseFirst(SortedName(i), SortedName(j))
                ELSE SeqLess(CaseIgnored(SortedName(i)), CaseIgnored(SortedName(j)))

\* "Alpha" is loaded first, then two records named "alpha": the bundle has the two
\* "alpha" in load order, then "Alpha"
C8_Witness ==
    /\ Written
    /\ Len(dir) = 3
    /\ dir[1].data.name = Alpha /\ dir[2].data.name = alpha /\ dir[3].data.name = alpha
    /\ dir[2].data.id # dir[3].data.id
    /\ [k \in DOMAIN servers |-> servers[k].file] = <<2, 3, 1>>

(***************************************************************************)
(* C9: in every bundle featured_server_ids has at most 6 ids, every id     *)
(* listed is the id of a bundled record whose publisher.official is true   *)
(* and whose publisher.verified is true, and the ids are those of the      *)
(* first 6 such records in the bundle's order.                             *)
(***************************************************************************)
OfficialAndVerified(server) ==
    server.publisher.present /\ server.publisher.official = "true"
        /\ server.publisher.verified = "true"

C9_FeaturedAreOfficialVerified ==
    Written =>
        LET bundle == bundleFile[1]
            eligible == SelectSeq(bundle.servers, OfficialAndVerified)
        IN  /\ Len(bundle.featured_server_ids) <= 6
            /\ \A k \in DOMAIN bundle.featured_server_ids :
                   \E i \in DOMAIN bundle.servers :
                       /\ bundle.servers[i].id = bundle.featured_server_ids[k]
                       /\ OfficialAndVerified(bundle.servers[i])
            /\ bundle.featured_server_ids =
                   [k \in 1..(IF Len(eligible) < 6 THEN Len(eligible) ELSE 6) |-> eligible[k].id]

(***************************************************************************)
(* C10: the bundle produced from a given set of record files (record       *)
(* sequence, category filter options, featured_server_ids; timestamps      *)
(* ignored) is the same for every order in which the enumeration returns   *)
(* the files.  Stated on the finished build against every other order.     *)
(***************************************************************************)
C10_BundleOrderIndependent ==
    Written => \A q \in Orders(dir) : BuildBundle(categoriesFile, q) = bundleFile

(***************************************************************************)
(* enrichServer on its own: one call on any server definition.             *)
(*                                                                         *)
(* build-bundle.js validates nothing, so the argument is any object: its   *)
(* publisher and transport may be missing or hold any value, and it may    *)
(* already carry badges, hosting_type and timestamps.  An authored         *)
(* hosting_type is written as enrichServer writes one ("local", "remote"), *)
(* so that an authored and a derived value can be equal.                   *)
(***************************************************************************)
\* lines 40-67 as one step
Enrich ==
    /\ pc = "enrich"
    /\ enriched' = EnrichServer(serverArg)
    /\ pc' = "enriched"
    /\ UNCHANGED <<argv, schemaOk, dir, files, vi, hasErrors, exitCode, exited, serverArg>>
    /\ UNCHANGED <<ccVars, stripVars, bundleVars>>

\* values publisher.official may hold
OfficialValues == {"true", "false", Undefined, "null", "\"yes\"", "\"true\"", "1"}
VerifiedValues == {"true", Undefined}

\* values transport.type may hold, and the url next to it
TypeValues == {"\"stdio\"", "\"http\"", "\"sse\"", "\"HTTP\"", Undefined}
UrlValues == {"\"https://example.com/mcp\"", Undefined}

Publishers == {NoPublisher} \cup {Publisher(o, v) : o \in OfficialValues, v \in VerifiedValues}
Transports ==
    {NoTransport} \cup {[present |-> TRUE, type |-> t, url |-> u] : t \in TypeValues, u \in UrlValues}

\* authored values of the fields enrichServer derives
AuthoredBadges == {NoBadges, << >>, <<"official">>}
AuthoredHostingTypes == {Undefined, "local", "remote"}
AuthoredTimestamps == {Undefined, "2020-01-01T00:00:00.000Z"}

\* a server definition that also carries authored values of the derived fields
AuthoredServer(publisher, transport, badges, hosting_type, timestamps) ==
    [Server("\"alpha\"", alpha, publisher, transport, NoCategories)
        EXCEPT !.badges = badges, !.hosting_type = hosting_type, !.timestamps = timestamps]

InitEnrich ==
    /\ \E p \in Publishers, t \in Transports, b \in AuthoredBadges,
          h \in AuthoredHostingTypes, ts \in AuthoredTimestamps :
           serverArg = AuthoredServer(p, t, b, h, ts)
    /\ enriched = << >>
    /\ pc = "enrich"
    /\ CliIdle
    /\ ConflictsIdle
    /\ StripIdle
    /\ BundleIdle

NextEnrich == Enrich

SpecEnrich == InitEnrich /\ [][NextEnrich]_vars

(***************************************************************************)
(* C11: the record enrichServer returns has badges equal to ["official"]   *)
(* if and only if the input has a publisher whose official is exactly the  *)
(* boolean true; in every other case (publisher absent, official false,    *)
(* missing, or a truthy value that is not a boolean) badges is the empty   *)
(* list.                                                                   *)
(***************************************************************************)
C11_OfficialBadge ==
    pc = "enriched" =>
        IF serverArg.publisher.present /\ serverArg.publisher.official = "true"
        THEN enriched.badges = <<"official">>
        ELSE enriched.badges = << >>

\* official is the string "yes", the record comes back without a badge
C11_Witness ==
    /\ pc = "enriched"
    /\ serverArg.publisher.present /\ serverArg.publisher.official = "\"yes\""
    /\ enriched.badges = << >>

(***************************************************************************)
(* C12: the record enrichServer returns has hosting_type "remote" exactly  *)
(* when the input's transport.type is "http", whatever other transport     *)
(* fields are present or missing, and "local" in every other case: stdio,  *)
(* transport absent, or a transport.type that is not recognized.           *)
(***************************************************************************)
C12_HostingType ==
    pc = "enriched" =>
        IF serverArg.transport.present /\ serverArg.transport.type = "\"http\""
        THEN enriched.hosting_type = "remote"
        ELSE enriched.hosting_type = "local"

\* an http transport without a url, authored as local, comes back remote
C12_Witness ==
    /\ pc = "enriched"
    /\ serverArg.transport.present
    /\ serverArg.transport.type = "\"http\"" /\ serverArg.transport.url = Undefined
    /\ serverArg.hosting_type = "local"
    /\ enriched.hosting_type = "remote"

(***************************************************************************)
(* C13: in every bundle the options of the category filter, other than the *)
(* fixed "all" entry, are exactly the categories of the category store     *)
(* that at least one bundled record lists in its categories, in the order  *)
(* of the store; a category no record lists is never an option.            *)
(***************************************************************************)
\* some record of the written bundle lists the category id
Referenced(id) ==
    \E k \in DOMAIN bundleFile[1].servers :
        LET cs == bundleFile[1].servers[k].categories
        IN  cs # NoCategories /\ \E i \in DOMAIN cs : cs[i] = id

IsReferenced(c) == Referenced(c.id)

C13_CategoryOptions ==
    Written =>
        LET options == bundleFile[1].category_options
            listed == SelectSeq(bundleFile[1].categories, IsReferenced)
        IN  /\ Len(options) >= 1
            /\ options[1] = [id |-> "all", label |-> "All Categories"]
            /\ Tail(options) = [k \in DOMAIN listed |-> [id |-> listed[k].id, label |-> listed[k].name]]
            /\ \A k \in DOMAIN options : k > 1 => Referenced(options[k].id)

\* the records list "other", which the store does not have, then "data", then "dev",
\* and none lists "cloud": the options are all, dev, data
C13_Witness ==
    /\ Written
    /\ Len(bundleFile[1].servers) = 3
    /\ bundleFile[1].servers[1].categories = <<"other">>
    /\ bundleFile[1].servers[2].categories = <<"data">>
    /\ bundleFile[1].servers[3].categories = <<"dev">>
    /\ ~Referenced("cloud")
    /\ [k \in DOMAIN bundleFile[1].category_options |-> bundleFile[1].category_options[k].id]
           = <<"all", "dev", "data">>

(***************************************************************************)
(* C14: authored values of the derived fields never reach the bundle: for  *)
(* any two record files that differ only in their authored top-level       *)
(* badges, hosting_type or timestamps, the build produces records with the *)
(* same badges and the same hosting_type, and both are determined by       *)
(* publisher.official and transport.type alone (two files that agree on    *)
(* these give records that agree on badges and hosting_type).              *)
(***************************************************************************)
\* a file's content without its authored badges, hosting_type and timestamps
Unauthored(d) ==
    [d EXCEPT !.badges = NoBadges, !.hosting_type = Undefined, !.timestamps = Undefined]

\* the record of the written bundle that comes from the j-th file
BundledFrom(j) ==
    bundleFile[1].servers[CHOOSE k \in DOMAIN servers : servers[k].file = dir[j].file]

\* two contents agree on publisher.official and on transport.type
SameOfficialAndType(a, b) ==
    /\ a.publisher.present = b.publisher.present
    /\ a.publisher.official = b.publisher.official
    /\ a.transport.present = b.transport.present
    /\ a.transport.type = b.transport.type

C14_AuthoredDerivedIgnored ==
    Written =>
        \A i, j \in DOMAIN dir :
            (Unauthored(dir[i].data) = Unauthored(dir[j].data)
                 \/ SameOfficialAndType(dir[i].data, dir[j].data))
            => /\ BundledFrom(i).badges = BundledFrom(j).badges
               /\ BundledFrom(i).hosting_type = BundledFrom(j).hosting_type

\* "bravo" as authored plainly and "bravo" authored with an official badge and
\* hosting_type local are both bundled without a badge and as remote
C14_Witness ==
    /\ Written
    /\ \E i, j \in DOMAIN dir :
           /\ dir[i].data.badges = NoBadges /\ dir[i].data.hosting_type = Undefined
           /\ dir[j].data.badges = <<"official">> /\ dir[j].data.hosting_type = "local"
           /\ Unauthored(dir[i].data) = Unauthored(dir[j].data)
           /\ BundledFrom(i).badges = << >> /\ BundledFrom(j).badges = << >>
           /\ BundledFrom(i).hosting_type = "remote" /\ BundledFrom(j).hosting_type = "remote"

====
